---- MODULE Spec2Model ----
(***************************************************************************)
(* A model of bravado's Operation (src/bravado/mapping/operation.py): the   *)
(* Param set built by build_params, request construction by                *)
(* construct_request / construct_params, the hand-over to the transport by *)
(* __call__, and the response handling of response_future.                 *)
(*                                                                         *)
(* Python values are modelled as follows.  A str is a sequence of tokens   *)
(* (characters, or digit groups of a date).  A dict is a function whose    *)
(* domain is its key set.  None is the empty sequence and a present value  *)
(* x is <<x>> wherever a value is optional.  A mutable dict that is held   *)
(* by reference lives in `heap` and is named by its address.               *)
(***************************************************************************)
EXTENDS Integers, Sequences, FiniteSets, TLC

\* ------------------------------------------------------------------ bounds
\* Number of calls made on the Operation.
MaxCalls == 2
\* Number of keyword arguments one call passes.
MaxArgs == 2
\* Length of an array given to marshal_array.
MaxLen == 2
\* Number of parameters declared at one level (operation or path).
MaxParams == 2
\* Number of characters of a path template after its leading '/'.
MaxPathLen == 3

\* ------------------------------------------------------------- python str
None == <<>>
Some(x) == <<x>>

\* str.replace(old, new): non-overlapping occurrences, scanned left to right.
RECURSIVE Replace(_, _, _)
Replace(s, old, new) ==
    IF Len(s) < Len(old) THEN s
    ELSE IF SubSeq(s, 1, Len(old)) = old
         THEN new \o Replace(SubSeq(s, Len(old) + 1, Len(s)), old, new)
         ELSE <<Head(s)>> \o Replace(Tail(s), old, new)

\* str.strip(c): every leading and every trailing c removed.
RECURSIVE LStrip(_, _)
LStrip(s, c) == IF s # <<>> /\ Head(s) = c THEN LStrip(Tail(s), c) ELSE s

RECURSIVE RStrip(_, _)
RStrip(s, c) ==
    IF s # <<>> /\ s[Len(s)] = c THEN RStrip(SubSeq(s, 1, Len(s) - 1), c) ELSE s

Strip(s, c) == RStrip(LStrip(s, c), c)

\* str(status_code) for the status codes the transport delivers here.
StatusCodes == {200, 404}
Str(n) == IF n = 200 THEN "200" ELSE "404"

\* dict[key] = value
DictSet(d, k, v) == [x \in DOMAIN d \cup {k} |-> IF x = k THEN v ELSE d[x]]
\* dict.get(key, default)
DictGet(d, k, default) == IF k \in DOMAIN d THEN d[k] ELSE default
\* the dict without key k (dict.pop on a copy)
DictDel(d, k) == [x \in DOMAIN d \ {k} |-> d[x]]

\* ------------------------------------------------------ schema documents
\* Parameter declarations (param_spec dicts) of the schema document.
StringType == [type |-> "string"]
DateType == [type |-> "string", format |-> "date"]

ParamSpec(name, location, required, schema) ==
    [name |-> name, in |-> location, required |-> required, schema |-> schema]

WithDefault(ps, value) ==
    [k \in DOMAIN ps \cup {"default"} |-> IF k = "default" THEN value ELSE ps[k]]

\* Native values: a str is its sequence of tokens, a datetime.date is tagged.
ValV == <<"v">>
ValD == <<"d">>
Date(y, m, d) == <<"datetime.date", y, m, d>>
Date1 == Date("2014", "01", "02")
Date2 == Date("2015", "12", "31")

\* Response specs: the values of op_spec['responses'].
RespSchema == [schema |-> DateType]
RespNoSchema == [description |-> <<"o", "k">>]

\* The documents explored: for each, the path-level parameters
\* (spec_dict['paths'][path_name]['parameters']) and the operation's op_spec.
Doc1 ==
    [path_item |-> [get |-> <<>>],
     op_spec |->
        [operationId |-> <<"o", "p">>,
         parameters |-> << ParamSpec("a", "query", TRUE, StringType),
                           WithDefault(ParamSpec("h", "query", FALSE, DateType), Date1) >>,
         responses |-> [x \in {"200", "default"} |->
                            IF x = "200" THEN RespSchema ELSE RespNoSchema]]]

Doc2 ==
    [path_item |-> [parameters |-> << ParamSpec("a", "path", FALSE, StringType) >>],
     op_spec |->
        [parameters |-> << WithDefault(ParamSpec("a", "query", TRUE, StringType), ValD),
                           ParamSpec("h", "header", FALSE, StringType) >>,
         responses |-> [x \in {"default"} |-> RespSchema]]]

Doc3 ==
    [path_item |-> [parameters |-> << ParamSpec("a", "query", FALSE, DateType),
                                      ParamSpec("h", "query", TRUE, StringType) >>],
     op_spec |->
        [parameters |-> << WithDefault(ParamSpec("h", "header", FALSE, StringType), ValD) >>,
         responses |-> [x \in {"404"} |-> RespNoSchema]]]

Doc4 ==
    [path_item |-> [parameters |->
                        << WithDefault(ParamSpec("a", "path", TRUE, StringType), ValD) >>],
     op_spec |-> [responses |-> <<>>]]

Docs == {Doc1, Doc2, Doc3, Doc4}

\* swagger_spec.api_url, path_name and http_method of the Operation.
ApiUrl == <<"u">>
PathName == <<"/", "p", "/", "{", "a", "}">>
HttpMethod == <<"g", "e", "t">>

\* ------------------------------------------------------------------ state
VARIABLES
    path_name,      \* Operation.path_name
    http_method,    \* Operation.http_method
    op_spec,        \* Operation.op_spec
    path_specs,     \* swagger_spec.spec_dict['paths'][path_name]
    params,         \* Operation.params: name -> Param
    _operation_id,  \* Operation._operation_id: None or Some(str)
    phase,          \* "new" after __init__, "built" after build_params
    heap,           \* address -> dict, the dicts that are held by reference
    calls,          \* the calls made so far, each with what it returned or raised
    transport,      \* the requests handed to the http client, one per future
    last_result,    \* None, or Some(the response and outcome of the latest resolution)
    m_spec,         \* marshal_array: the array Definition
    m_value,        \* marshal_array: the input value
    m_result        \* marshal_array: None, or Some(the result)

vars == << path_name, http_method, op_spec, path_specs, params, _operation_id,
           phase, heap, calls, transport, last_result, m_spec, m_value, m_result >>

opVars == << path_name, http_method, op_spec, path_specs, params, _operation_id,
             phase, heap, calls, transport, last_result >>

\* What __init__ sets and nothing changes afterwards.
fixedVars == << path_name, http_method, op_spec, path_specs >>

marshalVars == << m_spec, m_value, m_result >>

\* ------------------------------------------------------------------ Param
\* Param(swagger_spec, param_spec) and its attributes.
Param(param_spec) == [param_spec |-> param_spec]
ParamName(p) == p.param_spec.name
ParamLocation(p) == p.param_spec.in
ParamRequired(p) == p.param_spec.required
HasDefault(p) == "default" \in DOMAIN p.param_spec
ParamDefault(p) == p.param_spec.default

\* ------------------------------------------------------------ build_params
\* for param_spec in param_specs: self.params[param.name] = param
RECURSIVE InsertParams(_, _)
InsertParams(param_specs, acc) ==
    IF param_specs = <<>> THEN acc
    ELSE InsertParams(Tail(param_specs),
                      DictSet(acc, Head(param_specs).name, Param(Head(param_specs))))

OpParamSpecs(os) == DictGet(os, "parameters", <<>>)
PathParamSpecs(ps) == DictGet(ps, "parameters", <<>>)

\* ParamSpecsOrder with the two lists the other way round.
ParamSpecsOrderPathFirst(op_param_specs, path_param_specs) ==
    path_param_specs \o op_param_specs

\* param_specs = op_param_specs + path_param_specs
ParamSpecsOrder(op_param_specs, path_param_specs) == op_param_specs \o path_param_specs

BuildParams(os, ps) ==
    InsertParams(ParamSpecsOrder(OpParamSpecs(os), PathParamSpecs(ps)), <<>>)

build_params ==
    /\ phase = "new"
    /\ params' = BuildParams(op_spec, path_specs)
    /\ phase' = "built"
    /\ UNCHANGED << fixedVars, _operation_id, heap, calls, transport,
                    last_result, marshalVars >>

\* ------------------------------------------------------------ operation_id
\* DerivedOperationId with the final strip('_') lost.
DerivedOperationIdNoStrip(method, path) ==
    Replace(Replace(Replace(Replace(method \o <<"_">> \o path,
                                    <<"/">>, <<"_">>),
                            <<"{">>, <<"_">>),
                    <<"}">>, <<"_">>),
            <<"_", "_">>, <<"_">>)

DerivedOperationId(method, path) ==
    Strip(Replace(Replace(Replace(Replace(method \o <<"_">> \o path,
                                          <<"/">>, <<"_">>),
                                  <<"{">>, <<"_">>),
                          <<"}">>, <<"_">>),
                  <<"_", "_">>, <<"_">>),
          "_")

\* The value of self._operation_id after the property was read.
OperationIdAfterRead(cached, os) ==
    IF cached = None
    THEN IF "operationId" \in DOMAIN os
         THEN Some(os.operationId)
         ELSE Some(DerivedOperationId(http_method, path_name))
    ELSE cached

\* A read of the operation_id property (by __repr__, by a caller).
read_operation_id ==
    /\ _operation_id' = OperationIdAfterRead(_operation_id, op_spec)
    /\ UNCHANGED << fixedVars, params, phase, heap, calls, transport, last_result,
                    marshalVars >>

\* ----------------------------------------------------------- marshal_param
\* Primitive encoding: a date renders as its ISO-8601 string, a str as itself.
IsoFormat(d) == <<d[2], "-", d[3], "-", d[4]>>

MarshalPrimitive(schema, value) ==
    IF DictGet(schema, "format", "") = "date" THEN IsoFormat(value) ELSE value

\* urllib.quote for the characters that occur here.
QuoteChar(c) == IF c = " " THEN "%20" ELSE c
Quote(s) == [i \in 1..Len(s) |-> QuoteChar(s[i])]

\* The addresses of the dicts a request holds.
CallerHeaders == <<"caller_headers", 0>>
ParamsAddr(i) == <<"params", i>>
HeadersAddr(i) == <<"headers", i>>

HeapSet(h, addr, k, v) == [h EXCEPT ![addr] = DictSet(@, k, v)]

\* marshal_param(param, value, request): st is [request, heap]; value is None
\* (use the default) or Some(native value).
marshal_param(param, value, st) ==
    LET native == IF value = None THEN ParamDefault(param) ELSE value[1]
        wire == MarshalPrimitive(param.param_spec.schema, native)
        name == ParamName(param)
        request == st.request
    IN  CASE ParamLocation(param) = "query" ->
                [st EXCEPT !.heap = HeapSet(@, request.params, name, wire)]
          [] ParamLocation(param) = "header" ->
                [st EXCEPT !.heap = HeapSet(@, request.headers, name, wire)]
          [] ParamLocation(param) = "path" ->
                [st EXCEPT !.request.url =
                    Replace(@, <<"{", name, "}">>, Quote(wire))]

\* -------------------------------------------------------- construct_params
DoesNotHaveParameter(operation_id, param_name) ==
    [exc |-> "TypeError", msg |-> "{0} does not have parameter {1}",
     operation_id |-> operation_id, param_name |-> param_name]

IsARequiredParameter(param_name) ==
    [exc |-> "TypeError", msg |-> "{0} is a required parameter",
     param_name |-> param_name]

\* A call of marshal_param(param, value, request) from construct_params: the
\* request is updated, and b.encoded notes, per Param name, where each value
\* that was encoded came from.
MarshalInto(b, param, value) ==
    [b EXCEPT !.st = marshal_param(param, value, @),
              !.encoded = DictSet(@, ParamName(param),
                              Append(DictGet(@, ParamName(param), <<>>),
                                     IF value = None THEN "default" ELSE "supplied"))]

\* BindSupplied with the unknown-name check lost: an undeclared name is skipped.
RECURSIVE BindSuppliedSkipUnknown(_, _, _, _)
BindSuppliedSkipUnknown(order, op_kwargs, operation_id, b) ==
    IF order = <<>> THEN b
    ELSE LET param_name == Head(order) IN
         IF param_name \notin DOMAIN b.current_params
         THEN BindSuppliedSkipUnknown(Tail(order), op_kwargs, operation_id, b)
         ELSE BindSuppliedSkipUnknown(Tail(order), op_kwargs, operation_id,
                [MarshalInto(b, b.current_params[param_name], Some(op_kwargs[param_name]))
                    EXCEPT !.current_params = DictDel(@, param_name)])

\* BindSupplied with get in place of pop: a supplied Param stays in
\* current_params.
RECURSIVE BindSuppliedNoPop(_, _, _, _)
BindSuppliedNoPop(order, op_kwargs, operation_id, b) ==
    IF order = <<>> THEN b
    ELSE LET param_name == Head(order) IN
         IF param_name \notin DOMAIN b.current_params
         THEN [b EXCEPT !.raised = Some(DoesNotHaveParameter(operation_id, param_name))]
         ELSE BindSuppliedNoPop(Tail(order), op_kwargs, operation_id,
                MarshalInto(b, b.current_params[param_name], Some(op_kwargs[param_name])))

\* for param_name, param_value in op_kwargs.iteritems(): `order` is the order
\* in which the dict yields its keys.  b is [current_params, st, raised,
\* encoded].
RECURSIVE BindSupplied(_, _, _, _)
BindSupplied(order, op_kwargs, operation_id, b) ==
    IF order = <<>> THEN b
    ELSE LET param_name == Head(order) IN
         IF param_name \notin DOMAIN b.current_params
         THEN [b EXCEPT !.raised = Some(DoesNotHaveParameter(operation_id, param_name))]
         ELSE BindSupplied(Tail(order), op_kwargs, operation_id,
                [MarshalInto(b, b.current_params[param_name], Some(op_kwargs[param_name]))
                    EXCEPT !.current_params = DictDel(@, param_name)])

\* CheckRemaining with the two tests swapped: a default is used before the
\* required flag is looked at.
RECURSIVE CheckRemainingDefaultFirst(_, _)
CheckRemainingDefaultFirst(order, b) ==
    IF order = <<>> THEN b
    ELSE LET remaining_param == b.current_params[Head(order)] IN
         IF HasDefault(remaining_param)
         THEN CheckRemainingDefaultFirst(Tail(order),
                  MarshalInto(b, remaining_param, None))
         ELSE IF ParamRequired(remaining_param)
              THEN [b EXCEPT !.raised =
                        Some(IsARequiredParameter(ParamName(remaining_param)))]
              ELSE CheckRemainingDefaultFirst(Tail(order), b)

\* for remaining_param in current_params.itervalues()
RECURSIVE CheckRemaining(_, _)
CheckRemaining(order, b) ==
    IF order = <<>> THEN b
    ELSE LET remaining_param == b.current_params[Head(order)] IN
         IF ParamRequired(remaining_param)
         THEN [b EXCEPT !.raised = Some(IsARequiredParameter(ParamName(remaining_param)))]
         ELSE IF HasDefault(remaining_param)
              THEN CheckRemaining(Tail(order), MarshalInto(b, remaining_param, None))
              ELSE CheckRemaining(Tail(order), b)

\* construct_params(request, op_kwargs): order1 is the iteration order of
\* op_kwargs, and order2 gives the iteration order of current_params: the
\* names that are still in it, in the order they have in order2.
construct_params(st, op_kwargs, operation_id, order1, order2) ==
    LET b1 == BindSupplied(order1, op_kwargs, operation_id,
                  [current_params |-> params, st |-> st, raised |-> None,
                   encoded |-> <<>>])
        Remaining(n) == n \in DOMAIN b1.current_params
    IN  IF b1.raised # None THEN b1 ELSE CheckRemaining(SelectSeq(order2, Remaining), b1)

\* ParamsAfterConstruct with current_params = self.params, no copy: the pops
\* act on self.params.
ParamsAfterConstructNoCopy(self_params, current_params) == current_params

\* current_params = self.params.copy(): the pops act on the copy, and
\* self.params is what it was.
ParamsAfterConstruct(self_params, current_params) == self_params

\* ------------------------------------------------------- construct_request
\* The keyword arguments a caller passes: a name maps to a native value, a
\* date where the name is declared with format 'date' and a str otherwise.
ArgNames == {"a", "h", "z"}
ArgValue(n) ==
    IF n \in DOMAIN params /\ DictGet(params[n].param_spec.schema, "format", "") = "date"
    THEN Date2 ELSE ValV

\* _request_options: absent, a dict without 'headers', or a dict whose
\* 'headers' is the mapping the caller holds.
RequestOptionChoices ==
    { None, Some([timeout |-> <<"1">>]), Some([headers |-> CallerHeaders]) }

\* The orders in which a dict with key set S may be iterated.
Orders(S) ==
    { f \in [1..Cardinality(S) -> S] : \A i, j \in 1..Cardinality(S) : f[i] = f[j] => i = j }

\* 'headers': request_options.get('headers', {}): the address of the mapping
\* found under 'headers', or of a new dict.
RequestHeaders(request_options, i) ==
    DictGet(request_options, "headers", HeadersAddr(i))

\* construct_request(**kwargs) of call number i, up to the request dict and
\* the heap before construct_params runs.
NewRequest(options, i) ==
    LET request_options == IF options = None THEN <<>> ELSE options[1]
        headers == RequestHeaders(request_options, i)
    IN  [request |-> [method |-> http_method,
                      url |-> ApiUrl \o path_name,
                      params |-> ParamsAddr(i),
                      headers |-> headers],
         heap |-> [a \in DOMAIN heap \cup {ParamsAddr(i), headers} |->
                      IF a \in DOMAIN heap THEN heap[a] ELSE <<>>]]

construct_request(kwargs, options, i, operation_id, order1, order2) ==
    construct_params(NewRequest(options, i), kwargs, operation_id, order1, order2)

\* ---------------------------------------------------------------- __call__
\* HandOver with the future created before the request is constructed.
HandOverBeforeConstruction(tr, i, b) == Append(tr, [call |-> i, request |-> b.st.request])

\* return HTTPFuture(self.swagger_spec.http_client, request, response_future),
\* reached only when construct_request returned.
HandOver(tr, i, b) ==
    IF b.raised = None THEN Append(tr, [call |-> i, request |-> b.st.request]) ELSE tr

CallResult(kwargs, options, b) ==
    [kwargs |-> kwargs, options |-> options, encoded |-> b.encoded,
     ret |-> IF b.raised = None
             THEN [kind |-> "future", request |-> b.st.request]
             ELSE [kind |-> "raise", error |-> b.raised[1]]]

\* The dicts still referenced once the call is over: the caller's, and those
\* of the requests that were returned.
LiveHeap(h, b, i) ==
    [a \in { x \in DOMAIN h : b.raised = None \/ x \notin {ParamsAddr(i), HeadersAddr(i)} }
        |-> h[a]]

Call ==
    /\ phase = "built"
    /\ Len(calls) < MaxCalls
    /\ \E names \in SUBSET ArgNames, options \in RequestOptionChoices :
        /\ Cardinality(names) <= MaxArgs
        /\ \E order1 \in Orders(names), order2 \in Orders(DOMAIN params) :
            LET i == Len(calls) + 1
                kwargs == [n \in names |-> ArgValue(n)]
                id == OperationIdAfterRead(_operation_id, op_spec)
                b == construct_request(kwargs, options, i, id[1], order1, order2)
            IN  /\ _operation_id' = id
                /\ calls' = Append(calls, CallResult(kwargs, options, b))
                /\ transport' = HandOver(transport, i, b)
                /\ heap' = LiveHeap(b.st.heap, b, i)
                /\ params' = ParamsAfterConstruct(params, b.current_params)
    /\ UNCHANGED << fixedVars, phase, last_result, marshalVars >>

\* --------------------------------------------------------- response_future
\* The responses the transport delivers: a status code and a body text.
JsonDate1 == <<"\"", "2014", "-", "01", "-", "02", "\"">>
BodyTexts == { <<>>, JsonDate1 }
Responses == [status_code : StatusCodes, text : BodyTexts]

\* response.json() for the bodies above: a JSON string literal gives its
\* str, and a text that is no JSON document raises ValueError.
IsJson(text) == Len(text) >= 2 /\ text[1] = "\"" /\ text[Len(text)] = "\""
JsonLoads(text) == SubSeq(text, 2, Len(text) - 1)
NoJson == [exc |-> "ValueError", msg |-> "No JSON object could be decoded"]

\* responses.get(key, default) with None for "no entry".
Lookup(d, k, default) == IF k \in DOMAIN d THEN Some(d[k]) ELSE default

\* SelectResponseSpec with the two keys swapped: 'default' is tried first.
SelectResponseSpecDefaultFirst(responses, status_code) ==
    Lookup(responses, "default", Lookup(responses, status_code, None))

\* response_spec = responses.get(status_code, responses.get('default', None))
SelectResponseSpec(responses, status_code) ==
    Lookup(responses, status_code, Lookup(responses, "default", None))

DoesntMatch(response) ==
    [exc |-> "SwaggerError",
     msg |-> "Response doesn't match any expected responses: {0}",
     response |-> response]

\* swagger_type.get_swagger_type(schema)
GetSwaggerType(schema) == schema

\* post_receive(response_dict, swagger_type_, definitions)
Unmarshal(type, wire) ==
    IF DictGet(type, "format", "") = "date" THEN Date(wire[1], wire[3], wire[5]) ELSE wire

PostReceive(response_dict, swagger_type_) ==
    IF swagger_type_ = None THEN response_dict ELSE Unmarshal(swagger_type_[1], response_dict)

\* ResponseSwaggerType with the schema test lost: no response is decoded by
\* a type.
ResponseSwaggerTypeNone(response_spec) == None

\* if response_spec and 'schema' in response_spec:
\*     swagger_type_ = swagger_type.get_swagger_type(response_spec['schema'])
\* else: swagger_type_ = None
ResponseSwaggerType(response_spec) ==
    IF response_spec # None /\ response_spec[1] # <<>>
       /\ "schema" \in DOMAIN response_spec[1]
    THEN Some(GetSwaggerType(response_spec[1].schema))
    ELSE None

\* EmptyBody with the test lost.
EmptyBodyNotTested(response) == FALSE

\* if not response.text: return None
EmptyBody(response) == response.text = <<>>

\* response_future(response): what it returns or raises, with the response
\* spec it looked up (None when the lookup did not run) and the type it
\* decoded with (None when post_receive did not run).
response_future(response) ==
    IF EmptyBody(response)
    THEN [kind |-> "return", value |-> None, lookup |-> None, decoded |-> None]
    ELSE LET status_code == Str(response.status_code)
             response_spec == SelectResponseSpec(op_spec.responses, status_code)
         IN  IF response_spec = None /\ status_code # "200"
             THEN [kind |-> "raise", error |-> DoesntMatch(response),
                   lookup |-> Some(response_spec), decoded |-> None]
             ELSE IF ~IsJson(response.text)
             THEN [kind |-> "raise", error |-> NoJson,
                   lookup |-> Some(response_spec), decoded |-> None]
             ELSE LET response_dict == JsonLoads(response.text)
                      swagger_type_ == ResponseSwaggerType(response_spec)
                  IN  [kind |-> "return",
                       value |-> Some(PostReceive(response_dict, swagger_type_)),
                       lookup |-> Some(response_spec),
                       decoded |-> Some(swagger_type_)]

\* The caller resolves a future: the transport delivers a response and
\* response_future handles it.
Resolve ==
    /\ \E f \in 1..Len(transport), response \in Responses :
        last_result' = Some([response |-> response,
                             outcome |-> response_future(response)])
    /\ UNCHANGED << fixedVars, params, _operation_id, phase, heap, calls,
                    transport, marshalVars >>

\* ----------------------------------------------------------- marshal_array
\* Definitions (schema objects) given to the marshaller.
IntegerType == [type |-> "integer"]
ArrayOf(items) == [type |-> "array", items |-> items]
AddressType ==
    [type |-> "object",
     properties |-> [number |-> IntegerType, street_name |-> StringType]]

ArraySpecs ==
    { ArrayOf(IntegerType), ArrayOf(DateType), ArrayOf(ArrayOf(StringType)),
      ArrayOf(AddressType) }

\* The lists of at most n elements of S.
ListsOf(S, n) == UNION { [1..k -> S] : k \in 0..n }

\* The valid instances of a Definition, arrays bounded by MaxLen.
RECURSIVE Instances(_)
Instances(spec) ==
    CASE spec.type = "integer" -> {1, 2}
      [] spec.type = "string" ->
            IF DictGet(spec, "format", "") = "date" THEN {Date1, Date2} ELSE {ValV, ValD}
      [] spec.type = "array" -> ListsOf(Instances(spec.items), MaxLen)
      [] spec.type = "object" ->
            { [number |-> n, street_name |-> s] :
                      n \in Instances(spec.properties.number),
                      s \in Instances(spec.properties.street_name) }
            \cup { [number |-> n] : n \in Instances(spec.properties.number) }

\* marshal_array with the result built back to front.
RECURSIVE marshal_schema_object(_, _)
RECURSIVE marshal_array_reversed(_, _)
marshal_array_reversed(array_spec, array_value) ==
    IF array_value = <<>> THEN <<>>
    ELSE marshal_array_reversed(array_spec, Tail(array_value))
         \o << marshal_schema_object(array_spec.items, Head(array_value)) >>

\* marshal_array(swagger_spec, array_spec, array_value): each element is
\* marshalled by the items Definition and appended to the result.
RECURSIVE marshal_array(_, _)
marshal_array(array_spec, array_value) ==
    IF array_value = <<>> THEN <<>>
    ELSE << marshal_schema_object(array_spec.items, Head(array_value)) >>
         \o marshal_array(array_spec, Tail(array_value))

\* marshal_object: each property present on the value is marshalled by its
\* Definition.
marshal_object(object_spec, object_value) ==
    [k \in DOMAIN object_value |->
        marshal_schema_object(object_spec.properties[k], object_value[k])]

marshal_schema_object(schema_object_spec, value) ==
    CASE schema_object_spec.type = "array" -> marshal_array(schema_object_spec, value)
      [] schema_object_spec.type = "object" -> marshal_object(schema_object_spec, value)
      [] OTHER -> MarshalPrimitive(schema_object_spec, value)

\* A caller marshals the array it chose.
MarshalArray ==
    /\ m_result = None
    /\ m_spec # None
    /\ m_result' = Some(marshal_array(m_spec[1], m_value[1]))
    /\ UNCHANGED << opVars, m_spec, m_value >>

\* ------------------------------------------------------------------- Spec
Init ==
    /\ \E doc \in Docs :
        /\ op_spec = doc.op_spec
        /\ path_specs = doc.path_item
    /\ path_name = PathName
    /\ http_method = HttpMethod
    /\ params = <<>>
    /\ _operation_id = None
    /\ phase = "new"
    /\ heap = [a \in {CallerHeaders} |-> [k \in {"foo"} |-> <<"b", "a", "r">>]]
    /\ calls = <<>>
    /\ transport = <<>>
    /\ last_result = None
    /\ m_spec = None
    /\ m_value = None
    /\ m_result = None

Next ==
    \/ build_params
    \/ read_operation_id
    \/ Call
    \/ Resolve

Spec == Init /\ [][Next]_vars

\* The operation_id property on its own, over the path templates of at most
\* MaxPathLen characters after the leading '/', with and without a declared
\* operationId.
PathAlphabet == {"/", "{", "}", "_", "p"}
PathNames == { <<"/">> \o t : t \in UNION { [1..k -> PathAlphabet] : k \in 0..MaxPathLen } }
HttpMethods == { HttpMethod, <<"p", "u", "t">> }

InitOperationId ==
    /\ path_name \in PathNames
    /\ http_method \in HttpMethods
    /\ op_spec \in { [responses |-> <<>>],
                     [operationId |-> <<"o", "p">>, responses |-> <<>>] }
    /\ path_specs = [get |-> <<>>]
    /\ params = <<>>
    /\ _operation_id = None
    /\ phase = "new"
    /\ heap = [a \in {CallerHeaders} |-> [k \in {"foo"} |-> <<"b", "a", "r">>]]
    /\ calls = <<>>
    /\ transport = <<>>
    /\ last_result = None
    /\ m_spec = None
    /\ m_value = None
    /\ m_result = None

NextOperationId == read_operation_id

SpecOperationId == InitOperationId /\ [][NextOperationId]_vars

\* build_params on its own, over every pair of parameter lists of at most
\* MaxParams declarations each, and over documents without a 'parameters' key.
ParamSpecPool ==
    { ParamSpec("a", "query", TRUE, StringType),
      ParamSpec("a", "path", FALSE, StringType),
      ParamSpec("h", "header", FALSE, StringType),
      WithDefault(ParamSpec("h", "query", FALSE, DateType), Date1) }

ParamLists == UNION { [1..k -> ParamSpecPool] : k \in 0..MaxParams }

InitBuild ==
    /\ \E l \in ParamLists :
          op_spec \in { [responses |-> <<>>], [parameters |-> l, responses |-> <<>>] }
    /\ \E l \in ParamLists :
          path_specs \in { [get |-> <<>>], [parameters |-> l] }
    /\ path_name = PathName
    /\ http_method = HttpMethod
    /\ params = <<>>
    /\ _operation_id = None
    /\ phase = "new"
    /\ heap = [a \in {CallerHeaders} |-> [k \in {"foo"} |-> <<"b", "a", "r">>]]
    /\ calls = <<>>
    /\ transport = <<>>
    /\ last_result = None
    /\ m_spec = None
    /\ m_value = None
    /\ m_result = None

NextBuild == build_params

SpecBuild == InitBuild /\ [][NextBuild]_vars

\* The marshaller on its own: one array Definition and one of its instances.
InitMarshal ==
    /\ op_spec = Doc1.op_spec
    /\ path_specs = Doc1.path_item
    /\ path_name = PathName
    /\ http_method = HttpMethod
    /\ params = <<>>
    /\ _operation_id = None
    /\ phase = "new"
    /\ heap = [a \in {CallerHeaders} |-> [k \in {"foo"} |-> <<"b", "a", "r">>]]
    /\ calls = <<>>
    /\ transport = <<>>
    /\ last_result = None
    /\ \E spec \in ArraySpecs :
        /\ m_spec = Some(spec)
        /\ \E value \in Instances(spec) : m_value = Some(value)
    /\ m_result = None

NextMarshal == MarshalArray

SpecMarshal == InitMarshal /\ [][NextMarshal]_vars

\* ----------------------------------------------------------------- claims
Declared == DOMAIN params
Supplied(c) == DOMAIN c.kwargs
Raised(c) == c.ret.kind = "raise"
Returned(c) == c.ret.kind = "future"
IsUnknownArgumentError(e) ==
    e.exc = "TypeError" /\ e.msg = "{0} does not have parameter {1}"
IsMissingArgumentError(e) ==
    e.exc = "TypeError" /\ e.msg = "{0} is a required parameter"
IsUnexpectedResponseError(e) ==
    e.exc = "SwaggerError" /\ e.msg = "Response doesn't match any expected responses: {0}"
HandedOver(i) == \E t \in DOMAIN transport : transport[t].call = i

\* C1: a call that supplies a name outside the operation's Param set fails
\* with the unknown-argument error, the error names one of the undeclared
\* names that were supplied, and no request is returned or handed over.
C1_UnknownNameRaises ==
    \A i \in DOMAIN calls :
        LET c == calls[i] IN
        (Supplied(c) \ Declared # {}) =>
            /\ Raised(c)
            /\ IsUnknownArgumentError(c.ret.error)
            /\ c.ret.error.param_name \in Supplied(c) \ Declared
            /\ ~HandedOver(i)

\* A call supplied a declared and an undeclared name, and raised.
C1_Witness ==
    \E i \in DOMAIN calls :
        /\ Supplied(calls[i]) \ Declared # {}
        /\ Supplied(calls[i]) \cap Declared # {}
        /\ Raised(calls[i])

\* C2: a call whose supplied names are all declared and that omits a
\* required Param fails with the missing-argument error, also when the
\* omitted required Param has a default.
C2_MissingRequiredRaises ==
    \A i \in DOMAIN calls :
        LET c == calls[i] IN
        (/\ Supplied(c) \subseteq Declared
         /\ \E n \in Declared \ Supplied(c) : ParamRequired(params[n])) =>
            /\ Raised(c)
            /\ IsMissingArgumentError(c.ret.error)
            /\ c.ret.error.param_name \in
                  { n \in Declared \ Supplied(c) : ParamRequired(params[n]) }

\* A call omitted a required Param that has a default, and raised.
C2_Witness ==
    \E i \in DOMAIN calls :
        /\ Supplied(calls[i]) \subseteq Declared
        /\ \E n \in Declared \ Supplied(calls[i]) :
              ParamRequired(params[n]) /\ HasDefault(params[n])
        /\ Raised(calls[i])

\* What a request holds for a Param: the entry under the Param's name in the
\* container of its location, or the value substituted into the URL.
HoldsEncoded(request, p, wire) ==
    CASE ParamLocation(p) = "query" ->
            /\ ParamName(p) \in DOMAIN heap[request.params]
            /\ heap[request.params][ParamName(p)] = wire
      [] ParamLocation(p) = "header" ->
            /\ ParamName(p) \in DOMAIN heap[request.headers]
            /\ heap[request.headers][ParamName(p)] = wire
      [] ParamLocation(p) = "path" ->
            request.url = Replace(ApiUrl \o path_name, <<"{", ParamName(p), "}">>, Quote(wire))

HoldsNoEntry(request, p) ==
    CASE ParamLocation(p) = "query" -> ParamName(p) \notin DOMAIN heap[request.params]
      [] ParamLocation(p) = "header" -> ParamName(p) \notin DOMAIN heap[request.headers]
      [] ParamLocation(p) = "path" -> request.url = ApiUrl \o path_name

\* C3: in the request the latest call returned, every declared Param that is
\* not required and was not supplied is present, encoded from its default,
\* when it has a default, and has no entry when it has none.
C3_OmittedOptionalParams ==
    calls # <<>> /\ Returned(calls[Len(calls)]) =>
        LET c == calls[Len(calls)] IN
        \A n \in Declared \ Supplied(c) :
            ~ParamRequired(params[n]) =>
                IF HasDefault(params[n])
                THEN HoldsEncoded(c.ret.request, params[n],
                        MarshalPrimitive(params[n].param_spec.schema, ParamDefault(params[n])))
                ELSE HoldsNoEntry(c.ret.request, params[n])

\* The declaration of name n that comes last among the operation's own.
RECURSIVE LastNamed(_, _)
LastNamed(param_specs, n) ==
    IF param_specs[Len(param_specs)].name = n THEN param_specs[Len(param_specs)]
    ELSE LastNamed(SubSeq(param_specs, 1, Len(param_specs) - 1), n)

NamesOf(param_specs) == { param_specs[i].name : i \in DOMAIN param_specs }

\* C4: for a name declared by the path and by the operation, the Param kept
\* after build_params is the operation-level declaration.
C4_OperationLevelWins ==
    phase = "built" =>
        \A n \in NamesOf(OpParamSpecs(op_spec)) \cap NamesOf(PathParamSpecs(path_specs)) :
            params[n] = Param(LastNamed(OpParamSpecs(op_spec), n))

\* C5: for a non-empty body the response spec is the entry of the status
\* code if there is one, else the 'default' entry if there is one, else
\* none for status 200, and the unexpected-response error is raised exactly
\* when neither entry exists and the status is not 200.
C5_ResponseSpecPrecedence ==
    last_result # None /\ last_result[1].response.text # <<>> =>
        LET r == last_result[1]
            status_code == Str(r.response.status_code)
            responses == op_spec.responses
        IN  IF status_code \in DOMAIN responses
            THEN r.outcome.kind = "return"
                 /\ r.outcome.lookup = Some(Some(responses[status_code]))
            ELSE IF "default" \in DOMAIN responses
            THEN r.outcome.kind = "return"
                 /\ r.outcome.lookup = Some(Some(responses["default"]))
            ELSE IF r.response.status_code = 200
            THEN r.outcome.kind = "return" /\ r.outcome.lookup = Some(None)
            ELSE r.outcome.kind = "raise" /\ IsUnexpectedResponseError(r.outcome.error)

\* A non-empty response was resolved by the entry of its status code while a
\* different 'default' entry existed.
C5_Witness ==
    /\ last_result # None
    /\ last_result[1].response.text # <<>>
    /\ Str(last_result[1].response.status_code) \in DOMAIN op_spec.responses
    /\ "default" \in DOMAIN op_spec.responses
    /\ op_spec.responses["default"] #
          op_spec.responses[Str(last_result[1].response.status_code)]
    /\ last_result[1].outcome.kind = "return"

\* C6: an empty body resolves to None for every status code and response
\* table: no lookup, no decoding, no error.
C6_EmptyBodyGivesNone ==
    last_result # None /\ last_result[1].response.text = <<>> =>
        /\ last_result[1].outcome.kind = "return"
        /\ last_result[1].outcome.value = None
        /\ last_result[1].outcome.lookup = None
        /\ last_result[1].outcome.decoded = None

\* An empty response was resolved whose status matches no entry, with no
\* 'default' and a status other than 200.
C6_Witness ==
    /\ last_result # None
    /\ last_result[1].response.text = <<>>
    /\ last_result[1].response.status_code = 404
    /\ DOMAIN op_spec.responses = {}
    /\ last_result[1].outcome.kind = "return"

\* C7: the transport holds exactly the requests of the calls whose
\* construction returned, each as construction left it and in call order; a
\* call whose construction raised handed nothing over.
C7_ConstructionBeforeTransport ==
    /\ \A t \in DOMAIN transport :
          /\ transport[t].call \in DOMAIN calls
          /\ Returned(calls[transport[t].call])
          /\ transport[t].request = calls[transport[t].call].ret.request
          /\ \A u \in DOMAIN transport : u < t => transport[u].call < transport[t].call
    /\ \A i \in DOMAIN calls : Returned(calls[i]) <=> HandedOver(i)

\* One call raised during construction and another was handed over.
C7_Witness ==
    /\ \E i \in DOMAIN calls : Raised(calls[i]) /\ ~HandedOver(i)
    /\ \E i \in DOMAIN calls : Returned(calls[i]) /\ HandedOver(i)

\* The containers of the request a call returned.
Containers(c) == { c.ret.request.params, c.ret.request.headers }

\* C8: no container of a returned request is the mapping the caller holds,
\* and no two returned requests share a container.
C8_RequestOwnsItsContainers ==
    \A i \in DOMAIN calls :
        Returned(calls[i]) =>
            /\ CallerHeaders \notin Containers(calls[i])
            /\ \A j \in DOMAIN calls :
                  (j # i /\ Returned(calls[j])) =>
                      Containers(calls[i]) \cap Containers(calls[j]) = {}

\* The errors raised so far.
ErrorsRaised ==
    { calls[i].ret.error : i \in { j \in DOMAIN calls : Raised(calls[j]) } }
    \cup (IF last_result # None /\ last_result[1].outcome.kind = "raise"
          THEN { last_result[1].outcome.error } ELSE {})

\* C9: every error carries the operation identifier, and with it the
\* parameter name (argument errors) or the status (response errors).
C9_ErrorsCarryOperationId ==
    \A e \in ErrorsRaised :
        /\ "operation_id" \in DOMAIN e
        /\ e.operation_id = _operation_id[1]
        /\ IF IsUnexpectedResponseError(e)
           THEN "response" \in DOMAIN e
           ELSE "param_name" \in DOMAIN e

\* The result pairs with the input element by element, at every nesting
\* level: same length, and position i holds the encoding of input i.
RECURSIVE EncodedElementwise(_, _, _)
EncodedElementwise(spec, value, result) ==
    CASE spec.type = "array" ->
            /\ Len(result) = Len(value)
            /\ \A i \in 1..Len(value) : EncodedElementwise(spec.items, value[i], result[i])
      [] spec.type = "object" ->
            /\ DOMAIN result = DOMAIN value
            /\ \A k \in DOMAIN value :
                  EncodedElementwise(spec.properties[k], value[k], result[k])
      [] OTHER ->
            result = (IF DictGet(spec, "format", "") = "date"
                      THEN <<value[2], "-", value[3], "-", value[4]>> ELSE value)

\* C10: marshalling an array gives a sequence of the same length whose i-th
\* element encodes the i-th input element by the items Definition, at every
\* nesting level, and the empty array gives the empty array.
C10_ArrayEncodedElementwise ==
    m_result # None =>
        /\ EncodedElementwise(m_spec[1], m_value[1], m_result[1])
        /\ (m_value[1] = <<>> => m_result[1] = <<>>)

\* An array of arrays with two different, non-empty elements was marshalled.
C10_Witness ==
    /\ m_result # None
    /\ m_spec[1] = ArrayOf(ArrayOf(StringType))
    /\ Len(m_value[1]) = 2
    /\ m_value[1][1] # m_value[1][2]
    /\ m_value[1][1] # <<>>
    /\ m_value[1][2] # <<>>
    /\ Len(m_result[1]) = 2

\* The declarations in the order build_params is specified to insert them:
\* the operation's own, then the path's.
Concatenated == OpParamSpecs(op_spec) \o PathParamSpecs(path_specs)

\* C11: after build_params the Param set has exactly one Param for each name
\* declared at either level, and for a name declared more than once the Param
\* kept is the last one in "operation-level then path-level" order.
C11_UnionByNameLastWins ==
    phase = "built" =>
        /\ DOMAIN params = NamesOf(Concatenated)
        /\ \A n \in DOMAIN params : params[n] = Param(LastNamed(Concatenated, n))

\* A name was declared twice, differently, by the operation and once by the
\* path, differently from the operation's last, and the Param set was built
\* and holds the path's.
C11_Witness ==
    /\ phase = "built"
    /\ Len(OpParamSpecs(op_spec)) = 2
    /\ Len(PathParamSpecs(path_specs)) >= 1
    /\ OpParamSpecs(op_spec)[1].name = OpParamSpecs(op_spec)[2].name
    /\ OpParamSpecs(op_spec)[1] # OpParamSpecs(op_spec)[2]
    /\ PathParamSpecs(path_specs)[1].name = OpParamSpecs(op_spec)[1].name
    /\ PathParamSpecs(path_specs)[1] # OpParamSpecs(op_spec)[2]
    /\ params[OpParamSpecs(op_spec)[1].name] = Param(PathParamSpecs(path_specs)[1])

\* The Param set as build_params left it.
Built == BuildParams(op_spec, path_specs)

\* Whether a call with these arguments fails on the Param set P: it supplies
\* a name outside P or omits a required Param of P.
FailsOn(P, c) ==
    \/ Supplied(c) \ DOMAIN P # {}
    \/ \E n \in DOMAIN P \ Supplied(c) : ParamRequired(P[n])

\* C12: after any sequence of calls, returned or raised, the Param set is
\* the one build_params left, and whether a call fails is decided by its own
\* arguments and that Param set, whatever calls came before it.
C12_ParamSetUnchangedByCalls ==
    phase = "built" =>
        /\ params = Built
        /\ \A i \in DOMAIN calls : Raised(calls[i]) <=> FailsOn(Built, calls[i])

\* Two calls with the same, declared, arguments were made after one another
\* and both returned.
C12_Witness ==
    /\ Len(calls) = 2
    /\ calls[1].kwargs = calls[2].kwargs
    /\ Supplied(calls[1]) # {}
    /\ Supplied(calls[1]) \subseteq DOMAIN Built
    /\ Returned(calls[1])
    /\ Returned(calls[2])

\* C15: a call that supplies an undeclared name and omits a required Param
\* fails with the unknown-argument error; a missing-argument error comes
\* only after every supplied name was consumed; and no Param is encoded more
\* than once in a call.
C15_UnknownBeforeMissingAndEncodedOnce ==
    \A i \in DOMAIN calls :
        LET c == calls[i] IN
        /\ (/\ Supplied(c) \ Declared # {}
            /\ \E n \in Declared \ Supplied(c) : ParamRequired(params[n])) =>
                Raised(c) /\ IsUnknownArgumentError(c.ret.error)
        /\ (Raised(c) /\ IsMissingArgumentError(c.ret.error)) =>
                Supplied(c) \subseteq DOMAIN c.encoded
        /\ \A n \in DOMAIN c.encoded : Len(c.encoded[n]) = 1
        /\ Returned(c) =>
                \A n \in Declared :
                    DictGet(c.encoded, n, <<>>) =
                        IF n \in Supplied(c) THEN <<"supplied">>
                        ELSE IF HasDefault(params[n]) THEN <<"default">> ELSE <<>>

\* One call supplied an undeclared name and omitted a required Param; another
\* returned after it encoded one Param from the supplied value, although that
\* Param has a default, and another from its default.
C15_Witness ==
    /\ \E i \in DOMAIN calls :
          /\ Supplied(calls[i]) \ Declared # {}
          /\ \E n \in Declared \ Supplied(calls[i]) : ParamRequired(params[n])
          /\ Raised(calls[i])
    /\ \E i \in DOMAIN calls :
          /\ Returned(calls[i])
          /\ \E n \in Supplied(calls[i]) : HasDefault(params[n])

\* The response spec the precedence of C5 selects: None, or Some(entry).
Selected(responses, status_code) ==
    IF status_code \in DOMAIN responses THEN Some(responses[status_code])
    ELSE IF "default" \in DOMAIN responses THEN Some(responses["default"])
    ELSE None

\* The str a JSON string literal stands for: the text without its quotes.
ParsedJson(text) == [i \in 1..(Len(text) - 2) |-> text[i + 1]]

\* The date an ISO-8601 str stands for.
DateOfIso(wire) == <<"datetime.date", wire[1], wire[3], wire[5]>>

\* C13: a non-empty body that does not end in the unexpected-response error
\* is decoded by the schema of the selected response spec exactly when one
\* was selected and declares a schema; otherwise the parsed JSON is returned
\* as it is, decoded with no type.
C13_DecodedBySchemaIffDeclared ==
    (/\ last_result # None
     /\ last_result[1].response.text # <<>>
     /\ last_result[1].outcome.kind = "return") =>
        LET r == last_result[1]
            sel == Selected(op_spec.responses, Str(r.response.status_code))
            json == ParsedJson(r.response.text)
        IN  IF sel # None /\ "schema" \in DOMAIN sel[1]
            THEN /\ r.outcome.decoded = Some(Some(sel[1].schema))
                 /\ r.outcome.value =
                       Some(IF DictGet(sel[1].schema, "format", "") = "date"
                            THEN DateOfIso(json) ELSE json)
            ELSE /\ r.outcome.decoded = Some(None)
                 /\ r.outcome.value = Some(json)

\* A body was decoded by the schema of the entry of its status code.
C13_Witness ==
    /\ last_result # None
    /\ last_result[1].response.text # <<>>
    /\ last_result[1].outcome.kind = "return"
    /\ Str(last_result[1].response.status_code) \in DOMAIN op_spec.responses
    /\ "schema" \in DOMAIN op_spec.responses[Str(last_result[1].response.status_code)]
    /\ last_result[1].outcome.value = Some(Date1)

\* The characters of s that are not in the set cs, in order.
RECURSIVE Without(_, _)
Without(s, cs) ==
    IF s = <<>> THEN <<>>
    ELSE (IF Head(s) \in cs THEN <<>> ELSE <<Head(s)>>) \o Without(Tail(s), cs)

\* The length of the run of '_' that s starts with.
RECURSIVE LeadingUnderscores(_)
LeadingUnderscores(s) ==
    IF s # <<>> /\ Head(s) = "_" THEN 1 + LeadingUnderscores(Tail(s)) ELSE 0

\* One pass of '__' -> '_': a run of k '_' keeps k - (k \div 2) of them.
RECURSIVE HalveRuns(_)
HalveRuns(s) ==
    IF s = <<>> THEN <<>>
    ELSE IF Head(s) # "_" THEN <<Head(s)>> \o HalveRuns(Tail(s))
    ELSE LET k == LeadingUnderscores(s)
         IN  [i \in 1..(k - (k \div 2)) |-> "_"] \o HalveRuns(SubSeq(s, k + 1, Len(s)))

\* The first and last positions of s that hold no '_' (0 when there is none).
FirstKept(s) ==
    IF \A i \in 1..Len(s) : s[i] = "_" THEN 0
    ELSE CHOOSE i \in 1..Len(s) : s[i] # "_" /\ \A j \in 1..(i - 1) : s[j] = "_"
LastKept(s) ==
    IF \A i \in 1..Len(s) : s[i] = "_" THEN 0
    ELSE CHOOSE i \in 1..Len(s) : s[i] # "_" /\ \A j \in (i + 1)..Len(s) : s[j] = "_"

\* The identifier the claim derives from a method and a path template.
ExpectedDerivedId(method, path) ==
    LET joined == method \o <<"_">> \o path
        mapped == [i \in 1..Len(joined) |->
                      IF joined[i] \in {"/", "{", "}"} THEN "_" ELSE joined[i]]
        halved == HalveRuns(mapped)
    IN  IF FirstKept(halved) = 0 THEN <<>>
        ELSE SubSeq(halved, FirstKept(halved), LastKept(halved))

\* C14: once read, the operation identifier is the declared operationId when
\* there is one, and otherwise the identifier derived from the method and the
\* path template alone, which holds none of '/', '{', '}' and neither starts
\* nor ends with '_'; and a later read gives what the first read gave.
C14_OperationId ==
    /\ [](_operation_id # None =>
            LET id == _operation_id[1] IN
            IF "operationId" \in DOMAIN op_spec
            THEN id = op_spec.operationId
            ELSE /\ id = ExpectedDerivedId(http_method, path_name)
                 /\ \A i \in 1..Len(id) : id[i] \notin {"/", "{", "}"}
                 /\ id # <<>> => id[1] # "_" /\ id[Len(id)] # "_"
                 /\ Without(id, {"_"}) =
                       Without(http_method \o path_name, {"/", "{", "}", "_"}))
    /\ [][_operation_id # None => _operation_id' = _operation_id]_vars

\* The identifier was derived for '/{p}': the one pass left a double '_'
\* inside and the trailing '_' was removed.
C14_Witness ==
    /\ "operationId" \notin DOMAIN op_spec
    /\ path_name = <<"/", "{", "p", "}">>
    /\ http_method = <<"g", "e", "t">>
    /\ _operation_id = Some(<<"g", "e", "t", "_", "_", "p">>)

====
